---- MODULE Spec2Model ----
(***************************************************************************)
(* Model of p5/core/primitives3d.py: the 3D primitive factories, the       *)
(* draw-on-return wrapper and draw_shape.                                  *)
(*                                                                         *)
(* Numbers.  Parameters are integers.  A Python float quotient a / b is    *)
(* the reduced fraction <<n, d>> (Frac).  Products with math.sin/math.cos  *)
(* are symbolic terms, reduced only where the float result is exact:       *)
(* x * 0 = 0, sin(0) = 0 and cos(0) = 1.                                   *)
(*                                                                         *)
(* The mesh container (Geometry) is not part of this file.  The model      *)
(* keeps the fields the factories write themselves and records the         *)
(* container's derivation helpers a factory calls, in call order, in the   *)
(* field `helpers`.                                                        *)
(***************************************************************************)
EXTENDS Integers, Sequences, FiniteSets

VARIABLES pc, frame, op, args, exc, geom, renderLog, events

vars == <<pc, frame, op, args, exc, geom, renderLog, events>>

\* ---------------------------------------------------------------- bounds
MaxDim == 2
MaxDetailX == 4
MaxDetailY == 2
MaxNodes == 4
MaxCalls == 2

Dims == -1 .. MaxDim
DetailsX == -1 .. MaxDetailX
DetailsY == -1 .. MaxDetailY

\* --------------------------------------------------------------- numbers
Max(a, b) == IF a >= b THEN a ELSE b

Abs(a) == IF a < 0 THEN -a ELSE a

RECURSIVE GCD(_, _)
GCD(a, b) == IF b = 0 THEN a ELSE GCD(b, a % b)

\* the float n / d, d > 0, as a reduced fraction
Frac(n, d) == LET g == GCD(Abs(n), d) IN <<n \div g, d \div g>>

Zero == Frac(0, 1)

\* math.sin(2 * math.pi * u) * r
SinMul(u, r) ==
    IF r = Zero \/ u = Zero THEN [f |-> "const", u |-> Zero, r |-> Zero]
    ELSE [f |-> "sin", u |-> u, r |-> r]

\* math.cos(2 * math.pi * u) * r
CosMul(u, r) ==
    IF r = Zero THEN [f |-> "const", u |-> Zero, r |-> Zero]
    ELSE IF u = Zero THEN [f |-> "const", u |-> Zero, r |-> r]
    ELSE [f |-> "cos", u |-> u, r |-> r]

\* a coordinate that is a plain number
Const(r) == [f |-> "const", u |-> Zero, r |-> r]

\* ------------------------------------------------------- mesh container
\* Geometry(detail_x, detail_y): a fresh, empty mesh
Geometry(detail_x, detail_y) ==
    [detail_x |-> detail_x, detail_y |-> detail_y,
     vertices |-> <<>>, vertex_normals |-> <<>>, uvs |-> <<>>,
     faces |-> <<>>, edges |-> <<>>, stroke_indices |-> <<>>,
     helpers |-> <<>>, matrix |-> <<>>]

\* matrix.scale_transform(sx, sy, sz), kept as its three arguments
scale_transform(sx, sy, sz) == <<sx, sy, sz>>

\* result of a call: a returned mesh, or the exception that left it
Ok(g) == [exc |-> "", geom |-> g]

Raise(e) == [exc |-> e, geom |-> Geometry(0, 0)]

\* the sequence of the nrows * ncols values F[i, j] appended by
\* "for i in range(nrows): for j in range(ncols): append(F[i, j])"
Grid(nrows, ncols, F) ==
    [k \in 1 .. (Max(nrows, 0) * Max(ncols, 0)) |->
        F[(k - 1) \div ncols, (k - 1) % ncols]]

\* "for i in range(n): extend(F[i])" where every F[i] has w entries
Extend(n, w, F) ==
    [k \in 1 .. (Max(n, 0) * w) |-> F[(k - 1) \div w][((k - 1) % w) + 1]]

\* --------------------------------------------------------- truncated_cone
\* variant: the test is < 0, so a zero radius is kept
sane_bottom_radius_strict(bottom_radius) ==
    IF bottom_radius < 0 THEN 1 ELSE bottom_radius

\* bottom_radius = 1 if bottom_radius <= 0 else bottom_radius
sane_bottom_radius(bottom_radius) ==
    IF bottom_radius <= 0 THEN 1 ELSE bottom_radius

\* height = bottom_radius if height <= 0 else height
sane_height(bottom_radius, height) ==
    IF height <= 0 THEN bottom_radius ELSE height

\* start = -2 if bottom_cap else 0
ring_start(bottom_cap) == IF bottom_cap THEN -2 ELSE 0

\* variant: only the rim ring of the top cap is emitted, not its centre ring
ring_end_short(detail_y, top_cap) == detail_y + (IF top_cap THEN 1 ELSE 0)

\* end = detail_y + (2 if top_cap else 0)
ring_end(detail_y, top_cap) == detail_y + (IF top_cap THEN 2 ELSE 0)

\* variant: no wrap-around, the last side of a ring does not close on the
\* first
next_index_open(ii, detail_x) == IF ii + 1 < detail_x THEN ii + 1 ELSE ii

\* nextjj = (jj + 1) % detail_x
next_index(ii, detail_x) == (ii + 1) % detail_x

\* one ring level yy: its v, its y (already shifted by height / 2) and radius
ring_level(yy, bottom_radius, top_radius, height, detail_y) ==
    LET v0 == Frac(yy, detail_y)
        v == IF yy < 0 THEN Zero
             ELSE IF yy > detail_y THEN Frac(1, 1) ELSE v0
        \* y = height * v, then y -= height / 2
        y == IF yy < 0 THEN Frac(0 - height, 2)
             ELSE IF yy > detail_y THEN Frac(2 * height - height, 2)
             ELSE Frac(2 * height * yy - height * detail_y, 2 * detail_y)
        r0 == IF yy < 0 THEN Frac(bottom_radius, 1)
              ELSE IF yy > detail_y THEN Frac(top_radius, 1)
              ELSE Frac(bottom_radius * detail_y
                        + (top_radius - bottom_radius) * yy, detail_y)
        ring_radius == IF yy \in {-2, detail_y + 2} THEN Zero ELSE r0
    IN [v |-> v, y |-> y, ring_radius |-> ring_radius]

truncated_cone(bottom_radius0, top_radius0, height0, detail_x0, detail_y0, bottom_cap, top_cap) ==
    LET bottom_radius == sane_bottom_radius(bottom_radius0)
        top_radius == Max(top_radius0, 0)
        height == sane_height(bottom_radius, height0)
        detail_x == Max(detail_x0, 3)
        detail_y == Max(detail_y0, 1)
        start == ring_start(bottom_cap)
        end == ring_end(detail_y, top_cap)
        \* slant = math.atan2(bottom_radius - top_radius, height)
        slant == <<bottom_radius - top_radius, height>>
        level(r) == ring_level(start + r, bottom_radius, top_radius,
                               height, detail_y)
        u(ii) == Frac(ii, detail_x)
        nrings == end - start + 1
        vertex == [r \in 0 .. nrings - 1, ii \in 0 .. detail_x - 1 |->
                     <<SinMul(u(ii), level(r).ring_radius),
                       Const(level(r).y),
                       CosMul(u(ii), level(r).ring_radius)>>]
        normal == [r \in 0 .. nrings - 1, ii \in 0 .. detail_x - 1 |->
            IF start + r < 0
              THEN [kind |-> "down", u |-> Zero, slant |-> <<0, 0>>]
            ELSE IF start + r > detail_y /\ top_radius # 0
              THEN [kind |-> "up", u |-> Zero, slant |-> <<0, 0>>]
            ELSE [kind |-> "side", u |-> u(ii), slant |-> slant]]
        uv == [k \in 0 .. nrings * detail_x - 1 |->
                 <<u(k % detail_x), level(k \div detail_x).v>>]
        \* faces of the bottom cap, start_index = 0
        bottom_faces ==
            IF bottom_cap
              THEN [k \in 1 .. detail_x |->
                      LET jj == k - 1 IN
                      <<jj, detail_x + next_index(jj, detail_x),
                        detail_x + jj>>]
              ELSE <<>>
        body_start == IF bottom_cap THEN detail_x * 2 ELSE 0
        \* two faces per quad; the segment's start_index is
        \* body_start + seg * detail_x
        body_face(seg, ii, second) ==
            LET s == body_start + seg * detail_x
                nextii == next_index(ii, detail_x)
            IN IF second
                 THEN <<s + ii, s + detail_x + nextii, s + detail_x + ii>>
                 ELSE <<s + ii, s + nextii, s + detail_x + nextii>>
        body_faces ==
            [k \in 1 .. (2 * detail_x * detail_y) |->
                body_face((k - 1) \div (2 * detail_x),
                          ((k - 1) % (2 * detail_x)) \div 2,
                          (k - 1) % 2 = 1)]
        top_start == body_start + detail_y * detail_x + detail_x
        top_faces ==
            IF top_cap
              THEN [k \in 1 .. detail_x |->
                      LET ii == k - 1 IN
                      <<top_start + ii,
                        top_start + next_index(ii, detail_x),
                        top_start + detail_x>>]
              ELSE <<>>
        g == Geometry(detail_x0, detail_y0)
    IN [g EXCEPT !.vertices = Grid(nrings, detail_x, vertex),
                 !.vertex_normals = Grid(nrings, detail_x, normal),
                 !.uvs = Extend(nrings * detail_x, 2, uv),
                 !.faces = bottom_faces \o body_faces \o top_faces]

\* --------------------------------------------------------------- cylinder
cylinder(radius, height, detail_x, detail_y, top_cap, bottom_cap) ==
    LET g == truncated_cone(1, 1, 1, detail_x, detail_y, bottom_cap, top_cap)
    IN Ok([g EXCEPT !.matrix = scale_transform(radius, height, radius),
                    !.helpers = <<"make_triangle_edges",
                                  "edges_to_vertices">>])

\* ------------------------------------------------------------------- cone
\* variant: the cap flag is also passed as top_cap
cone_top_cap(radius, height, detail_x, detail_y, cap) ==
    LET g == truncated_cone(1, 0, 1, detail_x, detail_y, cap, cap)
    IN Ok([g EXCEPT !.helpers = <<"make_triangle_edges",
                                  "edges_to_vertices">>,
                    !.matrix = scale_transform(radius, height, radius)])

cone(radius, height, detail_x, detail_y, cap) ==
    LET g == truncated_cone(1, 0, 1, detail_x, detail_y, cap, FALSE)
    IN Ok([g EXCEPT !.helpers = <<"make_triangle_edges",
                                  "edges_to_vertices">>,
                    !.matrix = scale_transform(radius, height, radius)])

\* -------------------------------------------------------------------- box
\* d & m for a single-bit mask m
BitAnd(d, m) == ((d \div m) % 2) * m

\* variant: the +z face is missing from the table
cube_indices_five ==
    << <<0, 4, 2, 6>>, <<1, 3, 5, 7>>, <<0, 1, 4, 5>>,
       <<2, 6, 3, 7>>, <<0, 2, 1, 3>> >>

cube_indices ==
    << <<0, 4, 2, 6>>, <<1, 3, 5, 7>>, <<0, 1, 4, 5>>,
       <<2, 6, 3, 7>>, <<0, 2, 1, 3>>, <<4, 5, 6, 7>> >>

\* variant: the second pair is the diagonal 1-2 of the -x face
stroke_indices_diagonal ==
    << <<0, 1>>, <<1, 2>>, <<3, 2>>, <<6, 7>>, <<8, 9>>, <<9, 11>>,
       <<14, 15>>, <<16, 17>>, <<17, 19>>, <<18, 19>>, <<20, 21>>,
       <<22, 23>> >>

stroke_indices ==
    << <<0, 1>>, <<1, 3>>, <<3, 2>>, <<6, 7>>, <<8, 9>>, <<9, 11>>,
       <<14, 15>>, <<16, 17>>, <<17, 19>>, <<18, 19>>, <<20, 21>>,
       <<22, 23>> >>

\* octant = [((d & 1) * 2 - 1) / 2, ((d & 2) - 1) / 2, ((d & 4) / 2 - 1) / 2]
octant(d) ==
    <<Frac(BitAnd(d, 1) * 2 - 1, 2), Frac(BitAnd(d, 2) - 1, 2),
      Frac((BitAnd(d, 4) \div 2) - 1, 2)>>

box(width, height, depth, detail_x, detail_y) ==
    LET n == Len(cube_indices)
        vertex == [i \in 0 .. n - 1, j \in 0 .. 3 |->
                     octant(cube_indices[i + 1][j + 1])]
        uv == [k \in 0 .. n * 4 - 1 |->
                 <<Frac(BitAnd(k % 4, 1), 1), Frac(BitAnd(k % 4, 2), 2)>>]
        face == [i \in 0 .. n - 1 |->
                   LET v == i * 4
                   IN << <<v, v + 1, v + 2>>, <<v + 2, v + 1, v + 3>> >>]
        g == Geometry(detail_x, detail_y)
    IN Ok([g EXCEPT !.stroke_indices = stroke_indices,
                    !.vertices = Grid(n, 4, vertex),
                    !.uvs = Extend(n * 4, 2, uv),
                    !.faces = Extend(n, 2, face),
                    !.helpers = <<"compute_normals", "make_triangle_edges">>,
                    !.matrix = scale_transform(width, height, depth)])

\* ------------------------------------------------------------------ plane
plane(width, height, detail_x, detail_y) ==
    LET p == [i \in 0 .. detail_y, j \in 0 .. detail_x |->
                <<Frac(2 * j - detail_x, 2 * detail_x),
                  Frac(2 * i - detail_y, 2 * detail_y), Zero>>]
        uv == [k \in 0 .. (detail_y + 1) * (detail_x + 1) - 1 |->
                 <<Frac(k % (detail_x + 1), detail_x),
                   Frac(k \div (detail_x + 1), detail_y)>>]
        g == Geometry(detail_x, detail_y)
    IN IF detail_y = 0 \/ (detail_y >= 1 /\ detail_x = 0)
         THEN Raise("ZeroDivisionError")     \* v = i / detail_y, u = j / detail_x
         ELSE Ok([g EXCEPT
                    !.vertices = Grid(detail_y + 1, detail_x + 1, p),
                    !.uvs = Extend(Max(detail_y + 1, 0) * Max(detail_x + 1, 0),
                                   2, uv),
                    !.helpers = <<"compute_faces", "compute_normals",
                                  "make_triangle_edges", "edges_to_vertices">>,
                    !.matrix = scale_transform(width, height, 1)])

\* -------------------------------------------------------------- ellipsoid
\* p = [cosPhi * sinTheta, sinPhi, cosPhi * cosTheta] with
\* phi = pi * v - pi / 2 and theta = 2 * pi * u
sphere_point(v, u) ==
    <<[f |-> "cosPhi*sinTheta", v |-> v, u |-> u],
      [f |-> "sinPhi", v |-> v, u |-> Zero],
      [f |-> "cosPhi*cosTheta", v |-> v, u |-> u]>>

\* variant: the append sits after the inner loop, one normal per row
ellipsoid_vertex_normals_per_row(detail_x, detail_y) ==
    [k \in 1 .. Max(detail_y + 1, 0) |->
        sphere_point(Frac(k - 1, detail_y), Frac(1, 1))]

\* the geom.vertex_normals.append(p) of the inner loop
ellipsoid_vertex_normals(detail_x, detail_y) ==
    LET p == [i \in 0 .. detail_y, j \in 0 .. detail_x |->
                sphere_point(Frac(i, detail_y), Frac(j, detail_x))]
    IN Grid(detail_y + 1, detail_x + 1, p)

ellipsoid(radius_x, radius_y, radius_z, detail_x, detail_y) ==
    LET p == [i \in 0 .. detail_y, j \in 0 .. detail_x |->
                sphere_point(Frac(i, detail_y), Frac(j, detail_x))]
        uv == [k \in 0 .. (detail_y + 1) * (detail_x + 1) - 1 |->
                 <<Frac(k % (detail_x + 1), detail_x),
                   Frac(k \div (detail_x + 1), detail_y)>>]
        g == Geometry(detail_x, detail_y)
    IN IF detail_y = 0 \/ (detail_y >= 1 /\ detail_x = 0)
         THEN Raise("ZeroDivisionError")
         ELSE Ok([g EXCEPT
                    !.vertices = Grid(detail_y + 1, detail_x + 1, p),
                    !.vertex_normals =
                        ellipsoid_vertex_normals(detail_x, detail_y),
                    !.uvs = Extend(Max(detail_y + 1, 0) * Max(detail_x + 1, 0),
                                   2, uv),
                    !.helpers = <<"compute_faces", "make_triangle_edges",
                                  "edges_to_vertices">>,
                    !.matrix = scale_transform(radius_x, radius_y, radius_z)])

\* ----------------------------------------------------------------- line3d
line3d(x1, y1, z1, x2, y2, z2) ==
    LET g == Geometry(1, 1)
    IN Ok([g EXCEPT !.vertices = << <<x1, y1, z1>>, <<x2, y2, z2>> >>,
                    !.edges = << <<0, 1>> >>])

\* ------------------------------------------------------------------ torus
\* the float n / d for d # 0
Quot(n, d) == IF d < 0 THEN Frac(0 - n, 0 - d) ELSE Frac(n, d)

torus(radius, tube_radius, detail_x, detail_y) ==
    LET tube_ratio == Quot(tube_radius, radius)
        \* [r * cosTheta, r * sinTheta, tube_ratio * sinPhi],
        \* r = 1 + tube_ratio * cosPhi
        vertex == [i \in 0 .. detail_y, j \in 0 .. detail_x |->
            LET v == Frac(i, detail_y)
                u == Frac(j, detail_x)
            IN <<[f |-> "(1+rho*cosPhi)*cosTheta", rho |-> tube_ratio,
                  v |-> v, u |-> u],
                 [f |-> "(1+rho*cosPhi)*sinTheta", rho |-> tube_ratio,
                  v |-> v, u |-> u],
                 [f |-> "rho*sinPhi", rho |-> tube_ratio,
                  v |-> v, u |-> Zero]>>]
        \* after the inner loop u, cosTheta, sinTheta hold the values of
        \* its last iteration, j = detail_x
        n(i) ==
            LET v == Frac(i, detail_y)
                u == Frac(detail_x, detail_x)
            IN <<[f |-> "cosPhi*cosTheta", v |-> v, u |-> u],
                 [f |-> "cosPhi*sinTheta", v |-> v, u |-> u],
                 [f |-> "sinPhi", v |-> v, u |-> Zero]>>
        uv == [i \in 0 .. detail_y |->
                 <<Frac(detail_x, detail_x), Frac(i, detail_y)>>]
        g == Geometry(detail_x, detail_y)
    IN IF radius = 0 THEN Raise("ZeroDivisionError")
       ELSE IF detail_y = 0 THEN Raise("ZeroDivisionError")
       ELSE IF detail_y >= 1 /\ detail_x = 0 THEN Raise("ZeroDivisionError")
       ELSE IF detail_y >= 1 /\ detail_x < 0 THEN Raise("UnboundLocalError")
       ELSE Ok([g EXCEPT
                  !.vertices = Grid(detail_y + 1, detail_x + 1, vertex),
                  !.vertex_normals = [k \in 1 .. Max(detail_y + 1, 0) |->
                                        n(k - 1)],
                  !.uvs = Extend(detail_y + 1, 2, uv),
                  !.helpers = <<"compute_faces", "make_triangle_edges",
                                "edges_to_vertices">>,
                  !.matrix = scale_transform(radius, radius, radius)])

\* ------------------------------------------------------------- draw_shape
\* A shape tree: nodes 1 .. n, node 1 the root, parent[k] < k the parent of
\* node k (parent[1] = 0), isGeometry[k] whether node k is a Geometry.
Parents(n) ==
    {p \in [1 .. n -> 0 .. n] :
        p[1] = 0 /\ \A k \in 2 .. n : p[k] >= 1 /\ p[k] < k}

Shapes ==
    UNION {{[n |-> n, parent |-> p, isGeometry |-> g] :
               p \in Parents(n), g \in [1 .. n -> BOOLEAN]} :
           n \in 1 .. MaxNodes}

\* the mesh a factory returns: one Geometry without children
GeometryShape == [n |-> 1, parent |-> <<0>>, isGeometry |-> <<TRUE>>]

\* shape.children of node n, in list order
children(shape, n) ==
    LET S == {k \in 1 .. shape.n : shape.parent[k] = n}
    IN [i \in 1 .. Cardinality(S) |->
          CHOOSE k \in S : Cardinality({m \in S : m < k}) = i - 1]

\* p5.renderer.render(shape): the renderer sees node n during call id
render(n, id, log) == Append(log, [call |-> id, node |-> n])

\* variant: the children are not visited
draw_shape_root_only(shape, n, id, log) == render(n, id, log)

RECURSIVE draw_shape(_, _, _, _)
RECURSIVE draw_children(_, _, _, _)
draw_shape(shape, n, id, log) ==
    LET log1 == render(n, id, log)
    IN IF shape.isGeometry[n] THEN log1
       ELSE draw_children(shape, children(shape, n), id, log1)

\* for child_shape in shape.children: draw_shape(child_shape)
draw_children(shape, cs, id, log) ==
    IF cs = <<>> THEN log
    ELSE draw_children(shape, Tail(cs), id,
                       draw_shape(shape, Head(cs), id, log))

\* wrapped(*args): s = func(*args); draw_shape(s); return s
draw_on_return(res, id, log) ==
    IF res.exc # ""
      THEN [exc |-> res.exc, geom |-> res.geom, log |-> log,
            events |-> <<"func", "raise">>]
      ELSE LET log1 == draw_shape(GeometryShape, 1, id, log)
           IN [exc |-> "", geom |-> res.geom, log |-> log1,
               events |-> <<"func">>
                          \o [k \in 1 .. (Len(log1) - Len(log)) |-> "render"]
                          \o <<"return">>]

\* a function without the decorator
undecorated(res, log) ==
    [exc |-> res.exc, geom |-> res.geom, log |-> log,
     events |-> IF res.exc # "" THEN <<"func", "raise">>
                ELSE <<"func", "return">>]

\* sphere: return ellipsoid(radius, radius, radius, detail_x, detail_y),
\* the decorated ellipsoid
sphere(radius, detail_x, detail_y, id, log) ==
    draw_on_return(ellipsoid(radius, radius, radius, detail_x, detail_y),
                   id, log)

\* ---------------------------------------------------------- state machine
Init ==
    /\ pc = "idle"
    /\ frame = 0
    /\ op = "none"
    /\ args = <<>>
    /\ exc = ""
    /\ geom = Geometry(0, 0)
    /\ renderLog = <<>>
    /\ events = <<>>

\* one call from the sketch: its name, its arguments and its outcome
Call(name, a, out) ==
    /\ pc = "idle"
    /\ pc' = IF out.exc # "" THEN "raised" ELSE "returned"
    /\ op' = name
    /\ args' = a
    /\ exc' = out.exc
    /\ geom' = out.geom
    /\ renderLog' = out.log
    /\ events' = out.events
    /\ UNCHANGED frame

Torus ==
    \E r \in Dims, tr \in Dims, dx \in DetailsX, dy \in DetailsY :
        Call("torus",
             [radius |-> r, tube_radius |-> tr, detail_x |-> dx,
              detail_y |-> dy],
             draw_on_return(torus(r, tr, dx, dy), frame + 1, renderLog))

Box ==
    \E w \in Dims, h \in Dims, d \in Dims, dx \in DetailsX, dy \in DetailsY :
        Call("box",
             [width |-> w, height |-> h, depth |-> d, detail_x |-> dx,
              detail_y |-> dy],
             draw_on_return(box(w, h, d, dx, dy), frame + 1, renderLog))

Plane ==
    \E w \in Dims, h \in Dims, dx \in DetailsX, dy \in DetailsY :
        Call("plane",
             [width |-> w, height |-> h, detail_x |-> dx, detail_y |-> dy],
             draw_on_return(plane(w, h, dx, dy), frame + 1, renderLog))

Sphere ==
    \E r \in Dims, dx \in DetailsX, dy \in DetailsY :
        Call("sphere",
             [radius |-> r, detail_x |-> dx, detail_y |-> dy],
             sphere(r, dx, dy, frame + 1, renderLog))

Ellipsoid ==
    \E rx \in Dims, ry \in Dims, rz \in Dims,
       dx \in DetailsX, dy \in DetailsY :
        Call("ellipsoid",
             [radius_x |-> rx, radius_y |-> ry, radius_z |-> rz,
              detail_x |-> dx, detail_y |-> dy],
             draw_on_return(ellipsoid(rx, ry, rz, dx, dy),
                            frame + 1, renderLog))

TruncatedCone ==
    \E b \in Dims, t \in Dims, h \in Dims, dx \in DetailsX, dy \in DetailsY,
       bc \in BOOLEAN, tc \in BOOLEAN :
        Call("truncated_cone",
             [bottom_radius |-> b, top_radius |-> t, height |-> h,
              detail_x |-> dx, detail_y |-> dy,
              bottom_cap |-> bc, top_cap |-> tc],
             undecorated(Ok(truncated_cone(b, t, h, dx, dy, bc, tc)),
                         renderLog))

Cylinder ==
    \E r \in Dims, h \in Dims, dx \in DetailsX, dy \in DetailsY,
       tc \in BOOLEAN, bc \in BOOLEAN :
        Call("cylinder",
             [radius |-> r, height |-> h, detail_x |-> dx, detail_y |-> dy,
              top_cap |-> tc, bottom_cap |-> bc],
             draw_on_return(cylinder(r, h, dx, dy, tc, bc),
                            frame + 1, renderLog))

Cone ==
    \E r \in Dims, h \in Dims, dx \in DetailsX, dy \in DetailsY,
       cap \in BOOLEAN :
        Call("cone",
             [radius |-> r, height |-> h, detail_x |-> dx, detail_y |-> dy,
              cap |-> cap],
             draw_on_return(cone(r, h, dx, dy, cap), frame + 1, renderLog))

Line3d ==
    \E x1 \in Dims, y1 \in Dims, z1 \in Dims,
       x2 \in Dims, y2 \in Dims, z2 \in Dims :
        Call("line3d",
             [x1 |-> x1, y1 |-> y1, z1 |-> z1,
              x2 |-> x2, y2 |-> y2, z2 |-> z2],
             draw_on_return(line3d(x1, y1, z1, x2, y2, z2),
                            frame + 1, renderLog))

\* draw_shape(shape) called directly on a shape tree; it returns None
DrawShape ==
    \E shape \in Shapes :
        Call("draw_shape",
             [shape |-> shape],
             LET log1 == draw_shape(shape, 1, frame + 1, renderLog)
             IN [exc |-> "", geom |-> Geometry(0, 0), log |-> log1,
                 events |-> [k \in 1 .. (Len(log1) - Len(renderLog)) |->
                               "render"] \o <<"return">>])

\* the sketch goes on to its next call: the previous result is dropped and
\* the record of the render calls starts afresh
NextCall ==
    /\ pc # "idle"
    /\ frame + 1 < MaxCalls
    /\ pc' = "idle"
    /\ frame' = frame + 1
    /\ op' = "none"
    /\ args' = <<>>
    /\ exc' = ""
    /\ geom' = Geometry(0, 0)
    /\ renderLog' = <<>>
    /\ events' = <<>>

Next ==
    \/ Torus
    \/ Box
    \/ Plane
    \/ Sphere
    \/ Ellipsoid
    \/ TruncatedCone
    \/ Cylinder
    \/ Cone
    \/ Line3d
    \/ DrawShape
    \/ NextCall

Spec == Init /\ [][Next]_vars

\* ======================================================================
\* Properties
\* ======================================================================
Returned(name) == pc = "returned" /\ op = name

\* the three sides of a face, as pairs of what At maps its corners to
Sides(f, At) == {{At[f[1]], At[f[2]]}, {At[f[2]], At[f[3]]},
                 {At[f[1]], At[f[3]]}}

\* every (0-based) vertex index, mapped to itself
Index == [k \in 0 .. Len(geom.vertices) - 1 |-> k]

\* every (0-based) vertex index, mapped to the canonical position of its
\* vertex
Position == [k \in 0 .. Len(geom.vertices) - 1 |-> geom.vertices[k + 1]]

\* every side of every face lies on exactly two faces, and V - E + F = 2,
\* where two corners are the same vertex when At maps them to the same value
ClosedManifold(At) ==
    LET F == geom.faces
        E == UNION {Sides(F[i], At) : i \in DOMAIN F}
        V == {At[k] : k \in DOMAIN At}
    IN /\ \A e \in E :
            /\ Cardinality(e) = 2
            /\ Cardinality({i \in DOMAIN F : e \in Sides(F[i], At)}) = 2
       /\ Cardinality(V) - Cardinality(E) + Len(F) = 2

CylinderBothCaps ==
    Returned("cylinder") /\ args.top_cap /\ args.bottom_cap

\* C1 (as claimed): with both caps the cylinder is a closed manifold when
\* edges are pairs of vertex indices: every edge is a side of exactly two
\* faces and V - E + F = 2 with V the number of vertices.
C1_IndexManifold == CylinderBothCaps => ClosedManifold(Index)

\* C1 (amended): with both caps the cylinder is a closed manifold once
\* vertices at the same canonical position are identified: every edge (pair
\* of distinct positions) is a side of exactly two faces and V - E + F = 2
\* with V the number of distinct positions.
C1_PositionManifold == CylinderBothCaps => ClosedManifold(Position)

C1_Witness ==
    CylinderBothCaps /\ args.detail_x >= 4 /\ args.detail_y >= 2

DetailFactories ==
    {"box", "plane", "sphere", "ellipsoid", "truncated_cone", "cylinder",
     "cone", "torus"}

\* C2: for every factory and detail_x >= 1, detail_y >= 1 the returned mesh
\* has as many UV pairs as vertices, and its vertex normals are empty or as
\* many as the vertices.
C2_ParallelArrays ==
    (pc = "returned"
     /\ \/ op = "line3d"
        \/ op \in DetailFactories /\ args.detail_x >= 1 /\ args.detail_y >= 1)
    => /\ Len(geom.uvs) = 2 * Len(geom.vertices)
       /\ Len(geom.vertex_normals) \in {0, Len(geom.vertices)}

\* C3: every index of every face of a box, truncated_cone, cylinder or cone
\* is >= 0 and < the number of vertices of the same mesh.
C3_FaceIndicesInRange ==
    (pc = "returned" /\ op \in {"box", "truncated_cone", "cylinder", "cone"})
    => \A i \in DOMAIN geom.faces : \A c \in 1 .. 3 :
          geom.faces[i][c] >= 0 /\ geom.faces[i][c] < Len(geom.vertices)

C3_Witness ==
    /\ Returned("truncated_cone")
    /\ args.top_cap /\ ~args.bottom_cap
    /\ args.detail_x < 3 /\ args.detail_y < 1
    /\ Len(geom.faces) = 9

\* C4: plane, ellipsoid, sphere, torus, cylinder, cone and truncated_cone
\* never raise, whatever the integer detail counts, radii and heights.
C4_NoException ==
    op \in {"plane", "ellipsoid", "sphere", "torus", "cylinder", "cone",
            "truncated_cone"}
    => pc # "raised"

\* C5: truncated_cone with bottom_radius <= 0 returns the mesh that the same
\* call with bottom_radius = 1 returns (vertices, vertex_normals, uvs, faces).
C5_NonPositiveBottomRadiusIsOne ==
    (Returned("truncated_cone") /\ args.bottom_radius <= 0)
    => LET g1 == truncated_cone(1, args.top_radius, args.height,
                                args.detail_x, args.detail_y,
                                args.bottom_cap, args.top_cap)
       IN /\ geom.vertices = g1.vertices
          /\ geom.vertex_normals = g1.vertex_normals
          /\ geom.uvs = g1.uvs
          /\ geom.faces = g1.faces

C5_Witness ==
    /\ Returned("truncated_cone")
    /\ args.bottom_radius < 0 /\ args.height <= 0 /\ args.top_radius = 2
    /\ args.bottom_cap /\ args.top_cap

ConeCapped == Returned("cone") /\ args.cap

\* the faces of the returned mesh with a corner at position p
FacesAt(p) ==
    {i \in DOMAIN geom.faces :
        \E c \in 1 .. 3 : Position[geom.faces[i][c]] = p}

\* a face with two corners at the same position
Degenerate(f) == Cardinality({Position[f[c]] : c \in 1 .. 3}) < 3

\* the parts of C6 that do not count the faces at the apex: with
\* dx = max(detail_x, 3) and dy = max(detail_y, 1) the rings are the two of
\* the bottom cap and the body levels 0 .. dy, the vertices of the last ring
\* and no others lie at one point, and the faces are the bottom fan and the
\* body only.
ConeShape(dx, dy) ==
    LET V == geom.vertices
    IN /\ Len(V) = (dy + 3) * dx
       /\ {k \in DOMAIN V : V[k] = V[Len(V)]} = (Len(V) - dx + 1) .. Len(V)
       /\ Len(geom.faces) = dx + 2 * dx * dy

\* C6 (as claimed): cone(cap=True) has one apex point, the top ring, shared
\* by exactly detail_x triangles; no ring beyond level detail_y and no top
\* fan.
C6_ApexSharedByDetailX ==
    ConeCapped
    => /\ ConeShape(Max(args.detail_x, 3), Max(args.detail_y, 1))
       /\ Cardinality(FacesAt(geom.vertices[Len(geom.vertices)]))
            = args.detail_x

\* C6 (amended): with dx = max(detail_x, 3), cone(cap=True) has one apex
\* point, the top ring; it is a corner of exactly 2 * dx faces, dx of them
\* with three distinct corner positions and dx of them degenerate; no ring
\* beyond level detail_y and no top fan.
C6_ApexFaces ==
    ConeCapped
    => LET dx == Max(args.detail_x, 3)
           A == FacesAt(geom.vertices[Len(geom.vertices)])
       IN /\ ConeShape(dx, Max(args.detail_y, 1))
          /\ Cardinality(A) = 2 * dx
          /\ Cardinality({i \in A : ~Degenerate(geom.faces[i])}) = dx

C6_Witness == ConeCapped /\ args.detail_x >= 4 /\ args.detail_y >= 2

DrawingFactories ==
    {"box", "plane", "sphere", "ellipsoid", "cylinder", "cone", "torus",
     "line3d"}

\* the positions in the render record at which node n was rendered
RenderedAt(n) ==
    {i \in DOMAIN renderLog :
        renderLog[i] = [call |-> frame + 1, node |-> n]}

\* C7: a drawing factory that returns has made exactly one render call, on
\* its mesh, after its body and before returning; draw_shape on a tree
\* without Geometry nodes renders every node exactly once, a parent before
\* its children.
C7_RenderOnce ==
    /\ (pc = "returned" /\ op \in DrawingFactories)
       => /\ renderLog = <<[call |-> frame + 1, node |-> 1]>>
          /\ events = <<"func", "render", "return">>
    /\ (Returned("draw_shape")
        /\ \A k \in 1 .. args.shape.n : ~args.shape.isGeometry[k])
       => /\ Len(renderLog) = args.shape.n
          /\ \A k \in 1 .. args.shape.n : Cardinality(RenderedAt(k)) = 1
          /\ \A k \in 2 .. args.shape.n :
                \A i \in RenderedAt(args.shape.parent[k]) :
                   \A j \in RenderedAt(k) : i < j

C7_Witness ==
    /\ Returned("draw_shape")
    /\ args.shape.n = 4
    /\ args.shape.parent = <<0, 1, 1, 2>>
    /\ \A k \in 1 .. 4 : ~args.shape.isGeometry[k]
    /\ Len(renderLog) = 4
    /\ frame = 1

\* C8: box always has 24 vertices, 24 UV pairs, 12 faces and the same 12
\* stroke pairs; width, height and depth appear in the scale transform only.
C8_BoxFixed ==
    Returned("box")
    => /\ Len(geom.vertices) = 24
       /\ Len(geom.uvs) = 2 * 24
       /\ Len(geom.faces) = 12
       /\ geom.stroke_indices =
            << <<0, 1>>, <<1, 3>>, <<3, 2>>, <<6, 7>>, <<8, 9>>, <<9, 11>>,
               <<14, 15>>, <<16, 17>>, <<17, 19>>, <<18, 19>>, <<20, 21>>,
               <<22, 23>> >>
       /\ geom.matrix = <<args.width, args.height, args.depth>>
       /\ \A k \in DOMAIN geom.vertices : \A c \in 1 .. 3 :
             geom.vertices[k][c] \in {<<-1, 2>>, <<1, 2>>}
       /\ [geom EXCEPT !.matrix = <<>>, !.detail_x = 1, !.detail_y = 1]
            = [box(1, 1, 1, 1, 1).geom EXCEPT !.matrix = <<>>]

C8_Witness ==
    /\ Returned("box")
    /\ args.width = 2 /\ args.height = -1 /\ args.depth = 0
    /\ args.detail_x = 3 /\ args.detail_y = 0

\* C9: for dx, dy >= 1 ellipsoid has (dx + 1) * (dy + 1) vertices and as
\* many normals, in row-major order (rows over dy + 1, columns over dx + 1),
\* and each normal is the canonical vertex position at the same index,
\* whatever the radii.
C9_EllipsoidGrid ==
    (Returned("ellipsoid") /\ args.detail_x >= 1 /\ args.detail_y >= 1)
    => LET dx == args.detail_x
           dy == args.detail_y
       IN /\ Len(geom.vertices) = (dx + 1) * (dy + 1)
          /\ Len(geom.vertex_normals) = (dx + 1) * (dy + 1)
          /\ \A i \in 0 .. dy : \A j \in 0 .. dx :
                /\ geom.vertices[i * (dx + 1) + j + 1]
                     = sphere_point(Frac(i, dy), Frac(j, dx))
                /\ geom.vertex_normals[i * (dx + 1) + j + 1]
                     = geom.vertices[i * (dx + 1) + j + 1]

C9_Witness ==
    /\ Returned("ellipsoid")
    /\ args.detail_x >= 3 /\ args.detail_y >= 2
    /\ args.radius_x # args.radius_y /\ args.radius_z <= 0

\* the corner code of the box vertex with index k = 4 * i + j
CornerCode(k) == cube_indices[(k \div 4) + 1][(k % 4) + 1]

\* the number of bits in which two corner codes differ
BitsApart(a, b) ==
    Cardinality({m \in {1, 2, 4} : BitAnd(a, m) # BitAnd(b, m)})

\* C10: every stroke pair of the box joins two vertices of one face whose
\* corner codes differ in exactly one bit (never the v+1 / v+2 diagonal),
\* and the 12 pairs cover each of the 12 cube edges exactly once.
C10_StrokesAreCubeEdges ==
    Returned("box")
    => LET S == geom.stroke_indices
           Edge(i) == {CornerCode(S[i][1]), CornerCode(S[i][2])}
       IN /\ Len(S) = 12
          /\ \A i \in DOMAIN S :
                /\ S[i][1] \div 4 = S[i][2] \div 4
                /\ BitsApart(CornerCode(S[i][1]), CornerCode(S[i][2])) = 1
                /\ {S[i][1] % 4, S[i][2] % 4} # {1, 2}
                /\ \A c \in 1 .. 2 :
                      geom.vertices[S[i][c] + 1] = octant(CornerCode(S[i][c]))
          /\ {Edge(i) : i \in DOMAIN S}
               = {{a, b} : a \in 0 .. 7, b \in 0 .. 7} \cap
                 {e \in SUBSET (0 .. 7) :
                    \E a \in e, b \in e : e = {a, b} /\ BitsApart(a, b) = 1}
          /\ Cardinality({Edge(i) : i \in DOMAIN S}) = 12

C10_Witness ==
    Returned("box") /\ Len(geom.stroke_indices) = 12 /\ frame = 1
====
